---- MODULE Spec2Model ----
(***************************************************************************)
(* Model of titan/resources/base.py and titan/resources/validators.py:     *)
(* the resource entities (Organization, Account, Database, Schema and a    *)
(* schema-scoped resource), their scope links, name normalisation, stub    *)
(* coercion, implicit children, reference lists and the SQL lifecycle      *)
(* statements.                                                             *)
(*                                                                         *)
(* The heap is a sequence of entity records; an entity's identity is its   *)
(* index.  A string is a sequence of one-character strings, so that        *)
(* str.upper() is computed character by character.  An optional value is   *)
(* a sequence of length 0 (None) or 1.                                     *)
(***************************************************************************)
EXTENDS Integers, Sequences, FiniteSets, TLC

VARIABLES heap, roots, lastOp, call, stmt

vars == <<heap, roots, lastOp, call, stmt>>

----------------------------------------------------------------------------
(* Bounds of the model.                                                    *)

\* The variables of the caller; each holds the result of one constructor call.
Handles == {"x", "y"}

\* Number of entities created for a scope link, from a string or from the
\* attributes of an entity of another kind.
MaxCoercions == 2

\* Largest grace period passed to Account.drop_sql.
MaxGrace == 7

\* Default of grace_period_in_days.
DefaultGrace == 3

\* Names the caller constructs with: two case variants of one name.
NameInputs == { <<"a">>, <<"A">> }

\* The name the caller renames to.
RenameInputs == { <<"b">> }

\* Strings the caller gives to a scope link.
LinkNameInputs == { <<"d">> }

\* The comment the caller assigns.
CommentInputs == { <<"h", "i">> }

----------------------------------------------------------------------------
(* Strings.                                                                *)

LowerChars == <<"a","b","c","d","e","f","g","h","i","j","k","l","m",
                "n","o","p","q","r","s","t","u","v","w","x","y","z">>
UpperChars == <<"A","B","C","D","E","F","G","H","I","J","K","L","M",
                "N","O","P","Q","R","S","T","U","V","W","X","Y","Z">>

\* One character of str.upper().
UpperChar(c) ==
    IF \E i \in 1..Len(LowerChars) : LowerChars[i] = c
    THEN UpperChars[CHOOSE i \in 1..Len(LowerChars) : LowerChars[i] = c]
    ELSE c

\* str.upper()
Upper(s) == [i \in 1..Len(s) |-> UpperChar(s[i])]

\* A plausible slip: the validator returns its input unchanged.
normalize_resource_name_identity(name) == name

\* def normalize_resource_name(name): return name.upper()
normalize_resource_name(name) == Upper(name)

None == <<>>
Some(x) == <<x>>

PUBLIC == <<"P","U","B","L","I","C">>
INFORMATION_SCHEMA ==
    <<"I","N","F","O","R","M","A","T","I","O","N","_","S","C","H","E","M","A">>

----------------------------------------------------------------------------
(* Kinds and their scope links.                                            *)

Kinds == {"Organization", "Account", "Database", "Schema", "SchemaScoped"}

\* Kinds whose name field is declared as ResourceName in base.py.
NamedKinds == {"Organization", "Account", "Database", "Schema"}

NoId == 0

\* The class the scope-link field of a kind is annotated with ("" if the
\* kind has no scope link).
LinkClass(kind) ==
    CASE kind = "Account"      -> "Organization"
      [] kind = "Database"     -> "Account"
      [] kind = "Schema"       -> "Database"
      [] kind = "SchemaScoped" -> "Schema"
      [] OTHER                 -> ""

\* The attribute a kind's scope link is assigned through.
LinkField(kind) ==
    CASE kind = "Account"      -> "organization"
      [] kind = "Database"     -> "account"
      [] kind = "Schema"       -> "database"
      [] kind = "SchemaScoped" -> "schema"
      [] OTHER                 -> ""

\* The attribute that add() and remove() of a parent kind assign on the child
\* ("" if the kind defines neither).
AddField(kind) ==
    CASE kind = "Account"  -> "account"
      [] kind = "Database" -> "database"
      [] kind = "Schema"   -> "schema"
      [] OTHER             -> ""

\* Kinds that declare a comment field.
HasComment(kind) == kind \in {"Account", "Database", "Schema"}

\* ResourceName normalises; the schema-scoped mixin declares no name field and
\* its fully_qualified_name upper-cases on demand, so its name is kept as given.
StoredName(kind, name) ==
    IF kind \in NamedKinds THEN normalize_resource_name(name) ELSE name

----------------------------------------------------------------------------
(* Construction.                                                           *)

\* Resource.model_post_init: a non-stub entity held by a field is appended to
\* the new entity's reference list.  Only the scope link holds an entity.
NewRefs(h, link) ==
    IF link # NoId /\ ~h[link].stub THEN <<link>> ELSE <<>>

\* cls(name=..., stub=..., implicit=..., <link>=..., comment=...) for a kind
\* other than Database: the validated fields and Resource.model_post_init.
NewResource(h, kind, name, stub, implicit, link, comment) ==
    Append(h, [kind      |-> kind,
               name      |-> StoredName(kind, name),
               stub      |-> stub,
               implicit  |-> implicit,
               link      |-> link,
               comment   |-> comment,
               transient |-> FALSE,
               refs      |-> NewRefs(h, link)])

\* A validated assignment of an instance of the annotated class to the scope
\* link: the instance is stored as it is.
SetLink(h, child, parent) == [h EXCEPT ![child].link = parent]

\* Database.add(resource) for a Schema: resource.database = self
Database_add(h, self, child) == SetLink(h, child, self)

\* A plausible slip: the second implicit schema is not created.
Database_model_post_init_one(h, self) ==
    Database_add(NewResource(h, "Schema", PUBLIC, FALSE, TRUE, NoId, None),
                 self, Len(h) + 1)

\* Database.model_post_init, after super().model_post_init: the two implicit
\* schemas are constructed, then added.
Database_model_post_init(h, self) ==
    LET h1 == NewResource(h, "Schema", PUBLIC, FALSE, TRUE, NoId, None)
        h2 == NewResource(h1, "Schema", INFORMATION_SCHEMA, FALSE, TRUE, NoId, None)
    IN  Database_add(Database_add(h2, self, Len(h) + 1), self, Len(h) + 2)

\* cls(...) for any kind; the new entity is at index Len(h) + 1.
Instantiate(h, kind, name, stub, implicit, link, comment) ==
    LET h1 == NewResource(h, kind, name, stub, implicit, link, comment)
    IN  IF kind = "Database" THEN Database_model_post_init(h1, Len(h) + 1) ELSE h1

----------------------------------------------------------------------------
(* Validation of a value given to a scope link.                            *)

\* What the caller gives to a scope link: nothing, a string, or an entity.
Omitted == [tag |-> "omit", str |-> <<>>, ent |-> NoId]
FromStr(s) == [tag |-> "str",  str |-> s,    ent |-> NoId]
FromEnt(e) == [tag |-> "ent",  str |-> <<>>, ent |-> e]

\* A plausible slip: a stub of the same name that already exists is reused.
coerce_from_str_cached(h, cls, s) ==
    LET same == {i \in 1..Len(h) : /\ h[i].kind = cls
                                   /\ h[i].stub
                                   /\ h[i].name = StoredName(cls, s)}
    IN  IF same # {}
        THEN [heap |-> h, id |-> CHOOSE i \in same : TRUE]
        ELSE [heap |-> Instantiate(h, cls, s, TRUE, FALSE, NoId, None),
              id   |-> Len(h) + 1]

\* coerce_from_str(cls)(name): cls(name=name, stub=True), a new instance.
coerce_from_str(h, cls, s) ==
    [heap |-> Instantiate(h, cls, s, TRUE, FALSE, NoId, None),
     id   |-> Len(h) + 1]

\* model_config from_attributes=True: an object that is no instance of cls is
\* read attribute by attribute, each attribute it has validated against the
\* field of cls of that name.  Every kind has name, implicit and stub.  A
\* Database read as a Schema (or the reverse) has None in fields of type int
\* or str; a comment that is None is no str.
FromAttributesValid(cls, src) ==
    /\ ~({cls, src.kind} = {"Database", "Schema"})
    /\ (HasComment(cls) /\ HasComment(src.kind)) => src.comment # None

\* The instance of cls built from the attributes of src: the attributes src
\* lacks (among them the scope link of cls) take their defaults.
FromAttributes(h, cls, src) ==
    Instantiate(h, cls, src.name, src.stub, src.implicit, NoId,
                IF HasComment(cls) /\ HasComment(src.kind) THEN src.comment ELSE None)

\* Validation of the value given to a scope link annotated with cls:
\* the BeforeValidator coerce_from_str, then the validation of cls.
ValidateLink(h, cls, arg) ==
    CASE arg.tag = "omit" -> [ok |-> TRUE, heap |-> h, id |-> NoId]
      [] arg.tag = "str"  ->
            LET r == coerce_from_str(h, cls, arg.str)
            IN  [ok |-> TRUE, heap |-> r.heap, id |-> r.id]
      [] OTHER ->
            IF h[arg.ent].kind = cls
            THEN [ok |-> TRUE, heap |-> h, id |-> arg.ent]
            ELSE IF FromAttributesValid(cls, h[arg.ent])
            THEN [ok |-> TRUE, heap |-> FromAttributes(h, cls, h[arg.ent]),
                  id |-> Len(h) + 1]
            ELSE [ok |-> FALSE, heap |-> h, id |-> NoId]

----------------------------------------------------------------------------
(* Fully-qualified names.                                                  *)

\* FQN(database=..., schema=..., name=...): the arguments the traits pass.
FQN(database, schema, name) ==
    [database |-> database, schema |-> schema, name |-> name]

\* OrganizationScoped.fully_qualified_name
OrganizationScoped_fully_qualified_name(h, e) ==
    FQN(None, None, Upper(h[e].name))

\* AccountScoped.fully_qualified_name
AccountScoped_fully_qualified_name(h, e) ==
    FQN(None, None, Upper(h[e].name))

\* DatabaseScoped.fully_qualified_name
DatabaseScoped_fully_qualified_name(h, e) ==
    FQN(IF h[e].link # NoId THEN Some(h[h[e].link].name) ELSE None,
        None, Upper(h[e].name))

\* A plausible slip: the database is not looked up through the schema.
SchemaScoped_fully_qualified_name_flat(h, e) ==
    FQN(None,
        IF h[e].link # NoId THEN Some(h[h[e].link].name) ELSE None,
        Upper(h[e].name))

\* SchemaScoped.fully_qualified_name
SchemaScoped_fully_qualified_name(h, e) ==
    LET schema   == IF h[e].link # NoId THEN Some(h[h[e].link].name) ELSE None
        database == IF h[e].link # NoId /\ h[h[e].link].link # NoId
                    THEN Some(h[h[h[e].link].link].name)
                    ELSE None
    IN  FQN(database, schema, Upper(h[e].name))

\* Organization inherits no fully_qualified_name; the other kinds take the one
\* of their scope trait.
HasFqn(kind) == kind # "Organization"

fully_qualified_name(h, e) ==
    CASE h[e].kind = "Account"  -> OrganizationScoped_fully_qualified_name(h, e)
      [] h[e].kind = "Database" -> AccountScoped_fully_qualified_name(h, e)
      [] h[e].kind = "Schema"   -> DatabaseScoped_fully_qualified_name(h, e)
      [] OTHER                  -> SchemaScoped_fully_qualified_name(h, e)

\* The text of an FQN: the segments that are present, joined by dots.
FQN_str(f) ==
    (IF f.database # None THEN f.database[1] \o <<".">> ELSE <<>>)
    \o (IF f.schema # None THEN f.schema[1] \o <<".">> ELSE <<>>)
    \o f.name

----------------------------------------------------------------------------
(* The entities the caller can reach: those its constructor calls returned  *)
(* and their parent chains.  The implicit schemas are held by nothing.      *)

WithParents(h, S) == S \cup {h[e].link : e \in {x \in S : h[x].link # NoId}}

Reachable(h, rs) == WithParents(h, WithParents(h, WithParents(h, WithParents(h, rs))))

Ids == 1..Len(heap)

\* The number of entities of h made for a scope link: neither returned to the
\* caller by a constructor call nor an implicit child.
Coerced(h, rs) == Cardinality({i \in 1..Len(h) : i \notin rs /\ ~h[i].implicit})

Callable == Reachable(heap, roots)

\* Entities the caller passes as a scope link.  The concrete schema-scoped
\* kinds are no parent of anything.
LinkValues == {e \in Callable : heap[e].kind # "SchemaScoped"}

LinkArgs == {FromStr(s) : s \in LinkNameInputs} \cup {FromEnt(e) : e \in LinkValues}

\* What the last call was given and how it ended.  A call that raised keeps
\* only its name and its error.
Done(op, target, arg, name) ==
    [op |-> op, target |-> target, argtag |-> arg.tag, arg |-> arg.ent,
     str |-> arg.str, name |-> name, err |-> "none"]

Failed(op, err) ==
    [op |-> op, target |-> NoId, argtag |-> "omit", arg |-> NoId,
     str |-> <<>>, name |-> <<>>, err |-> err]

NoCall == [op |-> "none"]

----------------------------------------------------------------------------
(* The caller's operations on the entity graph.                            *)

Init ==
    /\ heap = <<>>
    /\ roots = {}
    /\ lastOp = Done("none", NoId, Omitted, <<>>)
    /\ call = NoCall
    /\ stmt = <<>>

\* kind(name=name) or kind(name=name, <link>=arg)
Construct(kind, name, arg) ==
    /\ Cardinality(roots) < Cardinality(Handles)
    /\ arg.tag # "omit" => LinkField(kind) # ""
    /\ LET r  == ValidateLink(heap, LinkClass(kind), arg)
           id == Len(r.heap) + 1
       IN  IF r.ok
           THEN /\ Coerced(r.heap, roots) <= MaxCoercions
                /\ heap' = Instantiate(r.heap, kind, name, FALSE, FALSE, r.id, None)
                /\ roots' = roots \cup {id}
                /\ lastOp' = Done("construct", id, arg, name)
           ELSE /\ UNCHANGED <<heap, roots>>
                /\ lastOp' = Failed("construct", "ValidationError")
    /\ UNCHANGED <<call, stmt>>

\* e.<link> = arg, with validate_assignment=True
AssignLink(e, arg) ==
    /\ LinkField(heap[e].kind) # ""
    /\ LET r == ValidateLink(heap, LinkClass(heap[e].kind), arg)
       IN  IF r.ok
           THEN /\ Coerced(r.heap, roots) <= MaxCoercions
                /\ heap' = SetLink(r.heap, e, r.id)
                /\ lastOp' = Done("assign", e, arg, <<>>)
           ELSE /\ UNCHANGED heap
                /\ lastOp' = Failed("assign", "ValidationError")
    /\ UNCHANGED <<roots, call, stmt>>

\* Account.add(resource): resource.account = self
Account_add(h, self, child) == SetLink(h, child, self)

\* Schema.add(resource): resource.schema = self
Schema_add(h, self, child) == SetLink(h, child, self)

\* parent.add(child).  A child without the attribute add() assigns raises
\* ValueError (extra="forbid").
Add(parent, child) ==
    /\ AddField(heap[parent].kind) # ""
    /\ IF LinkField(heap[child].kind) = AddField(heap[parent].kind)
       THEN /\ heap' = CASE heap[parent].kind = "Account"  -> Account_add(heap, parent, child)
                         [] heap[parent].kind = "Database" -> Database_add(heap, parent, child)
                         [] OTHER                          -> Schema_add(heap, parent, child)
            /\ lastOp' = Done("add", child, FromEnt(parent), <<>>)
       ELSE /\ UNCHANGED heap
            /\ lastOp' = Failed("add", "ValueError")
    /\ UNCHANGED <<roots, call, stmt>>

\* parent.remove(child): child.<link> = None.  The link is annotated with the
\* parent class, not Optional, so the validated assignment of None raises.
Remove(parent, child) ==
    /\ AddField(heap[parent].kind) # ""
    /\ lastOp' = Failed("remove",
                        IF LinkField(heap[child].kind) = AddField(heap[parent].kind)
                        THEN "ValidationError" ELSE "ValueError")
    /\ UNCHANGED <<heap, roots, call, stmt>>

\* Resource.requires(resource): self._refs.add(resource).  _refs is a list,
\* which has no add: AttributeError, and nothing is recorded.
Resource_requires(h, self, resource) ==
    [heap |-> h, err |-> "AttributeError"]

\* e.requires(r).  The call is recorded with what it was given, however it ends.
Requires(e, r) ==
    /\ LET res == Resource_requires(heap, e, r)
       IN  /\ heap' = res.heap
           /\ lastOp' = [Done("requires", e, FromEnt(r), <<>>) EXCEPT !.err = res.err]
    /\ UNCHANGED <<roots, call, stmt>>

\* e.name = name, with validate_assignment=True; the field is not frozen.
SetName(e, name) ==
    /\ heap' = [heap EXCEPT ![e].name = StoredName(heap[e].kind, name)]
    /\ lastOp' = Done("setname", e, Omitted, name)
    /\ UNCHANGED <<roots, call, stmt>>

Next ==
    \/ \E kind \in Kinds, name \in NameInputs, arg \in LinkArgs \cup {Omitted} :
          Construct(kind, name, arg)
    \/ \E e \in roots, arg \in LinkArgs : AssignLink(e, arg)
    \/ \E p \in roots, c \in roots : Add(p, c)
    \/ \E p \in roots, c \in roots : Remove(p, c)
    \/ \E e \in roots, r \in roots : Requires(e, r)
    \/ \E e \in roots, name \in RenameInputs : SetName(e, name)

Spec == Init /\ [][Next]_vars

----------------------------------------------------------------------------
(* SQL text.  A statement is the sequence of its words; a fragment handed  *)
(* to tidy_sql is the sequence of the words it holds, the empty string the *)
(* empty sequence.                                                         *)

Kw(s) == [tag |-> "kw",   kw |-> s,  text |-> <<>>, num |-> 0]
Text(cs) == [tag |-> "text", kw |-> "", text |-> cs,   num |-> 0]
Num(n) == [tag |-> "int",  kw |-> "", text |-> <<>>, num |-> n]
Bool(b) == [tag |-> "bool", kw |-> "", text |-> <<>>, num |-> IF b THEN 1 ELSE 0]

\* Python values given to lifecycle_update: None, a str, an int, a bool.
NoneValue == [tag |-> "none", kw |-> "", text |-> <<>>, num |-> 0]

\* "X" if flag else ""
If(flag, words) == IF flag THEN words ELSE <<>>

\* tidy_sql(*parts): the non-empty fragments joined into one text.
tidy_sql(parts) ==
    LET J[n \in 0..Len(parts)] == IF n = 0 THEN <<>> ELSE J[n - 1] \o parts[n]
    IN  J[Len(parts)]

\* f"'{value}'"
Quoted(cs) == <<"'">> \o cs \o <<"'">>

\* resource_type of a class.
resource_type(kind) ==
    CASE kind = "Organization" -> "ORGANIZATION"
      [] kind = "Account"      -> "ACCOUNT"
      [] kind = "Database"     -> "DATABASE"
      [] OTHER                 -> "SCHEMA"

\* model_dump(exclude_none=True, exclude_defaults=True), the fields of the model.
model_dump(ent) == [transient |-> ent.transient, comment |-> ent.comment]

\* cls.props.render(data): the properties that are set, in declared order: the
\* flag transient (Database, Schema) as its keyword alone, comment as
\* COMMENT = '<string>'.
Props_render(kind, data) ==
    If(kind \in {"Database", "Schema"} /\ data.transient, <<Kw("TRANSIENT")>>)
    \o If(data.comment # None,
          <<Kw("COMMENT"), Kw("="), Text(Quoted(data.comment[1]))>>)

\* Resource.lifecycle_create
Resource_lifecycle_create(kind, fqn, data, or_replace, if_not_exists) ==
    tidy_sql(<< <<Kw("CREATE")>>,
                If(or_replace, <<Kw("OR"), Kw("REPLACE")>>),
                <<Kw(resource_type(kind))>>,
                If(if_not_exists, <<Kw("IF"), Kw("NOT"), Kw("EXISTS")>>),
                <<Text(fqn)>>,
                Props_render(kind, data) >>)

\* Resource.lifecycle_delete
Resource_lifecycle_delete(kind, fqn, if_exists) ==
    tidy_sql(<< <<Kw("DROP")>>,
                <<Kw(resource_type(kind))>>,
                If(if_exists, <<Kw("IF"), Kw("EXISTS")>>),
                <<Text(fqn)>> >>)

\* Account.lifecycle_create
Account_lifecycle_create(fqn, data) ==
    tidy_sql(<< <<Kw("CREATE"), Kw("ACCOUNT")>>,
                <<Text(fqn)>>,
                Props_render("Account", data) >>)

\* A plausible slip: the grace period is put before the name.
Account_lifecycle_delete_suffix_first(fqn, if_exists, grace_period_in_days) ==
    tidy_sql(<< <<Kw("DROP"), Kw("ACCOUNT")>>,
                If(if_exists, <<Kw("IF"), Kw("EXISTS")>>),
                <<Kw("GRACE_PERIOD_IN_DAYS"), Kw("=")>>,
                <<Num(grace_period_in_days)>>,
                <<Text(fqn)>> >>)

\* Account.lifecycle_delete
Account_lifecycle_delete(fqn, if_exists, grace_period_in_days) ==
    tidy_sql(<< <<Kw("DROP"), Kw("ACCOUNT")>>,
                If(if_exists, <<Kw("IF"), Kw("EXISTS")>>),
                <<Text(fqn)>>,
                <<Kw("GRACE_PERIOD_IN_DAYS"), Kw("=")>>,
                <<Num(grace_period_in_days)>> >>)

\* Database.lifecycle_create
Database_lifecycle_create(fqn, data, or_replace, if_not_exists) ==
    tidy_sql(<< <<Kw("CREATE")>>,
                If(or_replace, <<Kw("OR"), Kw("REPLACE")>>),
                If(data.transient, <<Kw("TRANSIENT")>>),
                <<Kw("DATABASE")>>,
                If(if_not_exists, <<Kw("IF"), Kw("NOT"), Kw("EXISTS")>>),
                <<Text(fqn)>>,
                Props_render("Database", data) >>)

NAME == <<"N", "A", "M", "E">>

\* A plausible slip: the attribute name is tested before the value None.
Database_lifecycle_update_name_first(fqn, attr, new_value, if_exists) ==
    LET head == << <<Kw("ALTER"), Kw("DATABASE")>>,
                   If(if_exists, <<Kw("IF"), Kw("EXISTS")>>),
                   <<Text(fqn)>> >>
    IN  IF Upper(attr) = NAME
        THEN tidy_sql(head \o << <<Kw("RENAME"), Kw("TO")>>,
                                 IF new_value.tag = "none" THEN <<Kw("None")>>
                                 ELSE <<new_value>> >>)
        ELSE IF new_value.tag = "none"
        THEN tidy_sql(head \o << <<Kw("UNSET")>>, <<Text(Upper(attr))>> >>)
        ELSE tidy_sql(head \o << <<Kw("SET")>>, <<Text(Upper(attr))>>, <<Kw("=")>>,
                                 <<IF new_value.tag = "text"
                                   THEN Text(Quoted(new_value.text)) ELSE new_value>> >>)

\* Database.lifecycle_update(fqn, {attr: new_value}, if_exists)
Database_lifecycle_update(fqn, attr, new_value, if_exists) ==
    LET head == << <<Kw("ALTER"), Kw("DATABASE")>>,
                   If(if_exists, <<Kw("IF"), Kw("EXISTS")>>),
                   <<Text(fqn)>> >>
    IN  IF new_value.tag = "none"
        THEN tidy_sql(head \o << <<Kw("UNSET")>>, <<Text(Upper(attr))>> >>)
        ELSE IF Upper(attr) = NAME
        THEN tidy_sql(head \o << <<Kw("RENAME"), Kw("TO")>>, <<new_value>> >>)
        ELSE tidy_sql(head \o << <<Kw("SET")>>, <<Text(Upper(attr))>>, <<Kw("=")>>,
                                 <<IF new_value.tag = "text"
                                   THEN Text(Quoted(new_value.text)) ELSE new_value>> >>)

----------------------------------------------------------------------------
(* The caller's lifecycle calls on one entity.                             *)

\* Attributes and values the caller updates.
AttrInputs == { <<"n","a","m","e">>, <<"N","a","m","e">>,
                <<"c","o","m","m","e","n","t">>, <<"o","w","n","e","r">> }

ValueInputs == { NoneValue, Text(<<"h","i">>), Text(<<"N","E","W">>), Num(14), Bool(TRUE) }

\* grace_period_in_days as the caller passes it: not at all, or a number.
GraceInputs == {None} \cup {Some(g) : g \in 1..MaxGrace}

\* A lifecycle call: what it was given (fqn and data as the instance method
\* handed them to the class method) and how it ended.
Call(op, target, fqn, data, or_replace, if_not_exists, if_exists, grace, attr, value, err) ==
    [op |-> op, target |-> target, fqn |-> fqn, data |-> data, or_replace |-> or_replace,
     if_not_exists |-> if_not_exists, if_exists |-> if_exists, grace |-> grace,
     attr |-> attr, value |-> value, err |-> err]

\* The state after one constructor call.
InitSql ==
    \E kind \in NamedKinds, name \in NameInputs,
       arg \in {Omitted} \cup {FromStr(s) : s \in LinkNameInputs} :
        /\ arg.tag # "omit" => LinkField(kind) # ""
        /\ LET r == ValidateLink(<<>>, LinkClass(kind), arg)
           IN  /\ heap = Instantiate(r.heap, kind, name, FALSE, FALSE, r.id, None)
               /\ roots = {Len(r.heap) + 1}
               /\ lastOp = Done("construct", Len(r.heap) + 1, arg, name)
        /\ call = NoCall
        /\ stmt = <<>>

\* e.transient = b
SetTransient(e, b) ==
    /\ heap[e].kind \in {"Database", "Schema"}
    /\ heap' = [heap EXCEPT ![e].transient = b]
    /\ lastOp' = Done("settransient", e, Omitted, <<>>)
    /\ UNCHANGED <<roots, call, stmt>>

\* e.comment = c
SetComment(e, c) ==
    /\ HasComment(heap[e].kind)
    /\ heap' = [heap EXCEPT ![e].comment = Some(c)]
    /\ lastOp' = Done("setcomment", e, Omitted, <<>>)
    /\ UNCHANGED <<roots, call, stmt>>

\* e.create_sql(**kwargs): a flag that is false is not passed.
\* Organization has no fqn; Account.lifecycle_create takes no flag.
CreateSql(e, or_replace, if_not_exists) ==
    LET k    == heap[e].kind
        fqn  == FQN_str(fully_qualified_name(heap, e))
        data == model_dump(heap[e])
        c(err) == Call("create_sql", e, fqn, data, or_replace, if_not_exists, FALSE,
                       None, <<>>, NoneValue, err)
    IN  /\ CASE k = "Organization" ->
                  /\ call' = c("AttributeError") /\ stmt' = <<>>
             [] k = "Account" /\ (or_replace \/ if_not_exists) ->
                  /\ call' = c("TypeError") /\ stmt' = <<>>
             [] k = "Account" /\ ~(or_replace \/ if_not_exists) ->
                  /\ call' = c("none") /\ stmt' = Account_lifecycle_create(fqn, data)
             [] k = "Database" ->
                  /\ call' = c("none")
                  /\ stmt' = Database_lifecycle_create(fqn, data, or_replace, if_not_exists)
             [] OTHER ->
                  /\ call' = c("none")
                  /\ stmt' = Resource_lifecycle_create(k, fqn, data, or_replace, if_not_exists)
        /\ UNCHANGED <<heap, roots, lastOp>>

\* e.drop_sql(**kwargs).  Only Account.lifecycle_delete takes
\* grace_period_in_days, with the default 3.
DropSql(e, if_exists, grace) ==
    LET k   == heap[e].kind
        fqn == FQN_str(fully_qualified_name(heap, e))
        c(err) == Call("drop_sql", e, fqn, model_dump(heap[e]), FALSE, FALSE, if_exists,
                       grace, <<>>, NoneValue, err)
    IN  /\ CASE k = "Organization" ->
                  /\ call' = c("AttributeError") /\ stmt' = <<>>
             [] k = "Account" ->
                  /\ call' = c("none")
                  /\ stmt' = Account_lifecycle_delete(fqn, if_exists,
                                IF grace = None THEN DefaultGrace ELSE grace[1])
             [] k # "Account" /\ k # "Organization" /\ grace # None ->
                  /\ call' = c("TypeError") /\ stmt' = <<>>
             [] OTHER ->
                  /\ call' = c("none")
                  /\ stmt' = Resource_lifecycle_delete(k, fqn, if_exists)
        /\ UNCHANGED <<heap, roots, lastOp>>

\* Database.lifecycle_update(e.fqn, {attr: value}, if_exists=...)
LifecycleUpdate(e, attr, value, if_exists) ==
    /\ heap[e].kind = "Database"
    /\ call' = Call("lifecycle_update", e, FQN_str(fully_qualified_name(heap, e)),
                    model_dump(heap[e]), FALSE, FALSE, if_exists, None, attr, value, "none")
    /\ stmt' = Database_lifecycle_update(FQN_str(fully_qualified_name(heap, e)),
                                         attr, value, if_exists)
    /\ UNCHANGED <<heap, roots, lastOp>>

NextSql ==
    \/ \E e \in roots, b \in BOOLEAN : SetTransient(e, b)
    \/ \E e \in roots, c \in CommentInputs : SetComment(e, c)
    \/ \E e \in roots, r \in BOOLEAN, n \in BOOLEAN : CreateSql(e, r, n)
    \/ \E e \in roots, x \in BOOLEAN, g \in GraceInputs : DropSql(e, x, g)
    \/ \E e \in roots, a \in AttrInputs, v \in ValueInputs, x \in BOOLEAN :
          LifecycleUpdate(e, a, v, x)

SpecSql == InitSql /\ [][NextSql]_vars


----------------------------------------------------------------------------
(* Properties of the entity graph.                                         *)

Range(q) == {q[i] : i \in 1..Len(q)}

\* s holds no lower-case letter.
NoLower(s) == \A i \in 1..Len(s) : s[i] \notin Range(LowerChars)

\* a and b are the same string up to the case of their letters.
CaseVariant(a, b) ==
    /\ Len(a) = Len(b)
    /\ \A i \in 1..Len(a) :
          \/ a[i] = b[i]
          \/ \E k \in 1..Len(LowerChars) : {a[i], b[i]} = {LowerChars[k], UpperChars[k]}

\* The name of the entity e's scope link holds, if it holds one.
ParentName(e) ==
    IF heap[e].link = NoId THEN None ELSE Some(heap[heap[e].link].name)

\* The names of the parents an FQN of the given depth shows, outermost first.
ParentSegments(e, depth) ==
    LET p == heap[e].link
    IN  IF depth = 0 \/ p = NoId THEN <<>>
        ELSE (IF depth = 1 \/ heap[p].link = NoId THEN <<>>
              ELSE <<heap[heap[p].link].name>>) \o <<heap[p].name>>

\* The segments joined by dots.
Dotted(segs) ==
    LET D[n \in 0..Len(segs)] ==
            IF n = 0 THEN <<>>
            ELSE IF n = 1 THEN segs[1]
            ELSE D[n - 1] \o <<".">> \o segs[n]
    IN  D[Len(segs)]

FqnDepth(kind) ==
    CASE kind = "Schema" -> 1 [] kind = "SchemaScoped" -> 2 [] OTHER -> 0

\* C1: in every reachable state the fully-qualified name of an entity follows
\* its current parent chain: an organization- or account-scoped entity gives
\* its name alone, a database-scoped entity the name of its current database
\* and its name, a schema-scoped entity the name of its schema's database, the
\* name of its schema and its name; a segment whose link is unset is absent,
\* in the FQN and in its text.
C1_FqnFromParentChain ==
    \A e \in Ids : HasFqn(heap[e].kind) =>
        LET f == fully_qualified_name(heap, e)
            k == heap[e].kind
            p == heap[e].link
        IN  /\ NoLower(f.name) /\ CaseVariant(f.name, heap[e].name)
            /\ k \in {"Account", "Database"} => f.database = None /\ f.schema = None
            /\ k = "Schema" => f.database = ParentName(e) /\ f.schema = None
            /\ k = "SchemaScoped" =>
                  /\ f.schema = ParentName(e)
                  /\ f.database = IF p = NoId THEN None ELSE ParentName(p)
            /\ FQN_str(f) = Dotted(ParentSegments(e, FqnDepth(k)) \o <<f.name>>)

\* A schema-scoped entity whose schema was renamed after it was linked, and
\* whose schema has a database.
C1_Witness ==
    /\ lastOp.op = "setname"
    /\ \E e \in Ids :
          /\ heap[e].kind = "SchemaScoped"
          /\ heap[e].link = lastOp.target
          /\ fully_qualified_name(heap, e) =
                FQN(Some(<<"D">>), Some(<<"B">>), <<"A">>)

C3_StubPerCoercion ==
    [][lastOp'.argtag = "str" =>
          LET t == lastOp'.target
              l == heap'[t].link
          IN  /\ l \notin 1..Len(heap)
              /\ l \in 1..Len(heap')
              /\ heap'[l].stub
              /\ heap'[l].kind = LinkClass(heap'[t].kind)
              /\ heap'[l].name = Upper(lastOp'.str)
              /\ l \notin roots'
              /\ \A e \in 1..Len(heap') :
                    (e # t /\ heap'[e].link = l) => heap'[e].implicit]_vars

\* Two schemas constructed with the same string hold two stub databases.
C3_Witness ==
    /\ lastOp.argtag = "str"
    /\ \E e1 \in roots, e2 \in roots :
          /\ e1 # e2
          /\ heap[e1].kind = "Schema" /\ heap[e2].kind = "Schema"
          /\ heap[e1].link # heap[e2].link
          /\ heap[heap[e1].link].stub /\ heap[heap[e2].link].stub
          /\ heap[heap[e1].link].kind = "Database"
          /\ heap[heap[e1].link].name = <<"D">>
          /\ heap[heap[e2].link].name = <<"D">>

\* The implicit schemas whose database link is d.
ImplicitChildren(d) ==
    {i \in Ids : heap[i].kind = "Schema" /\ heap[i].implicit /\ heap[i].link = d}

\* C4: every Database that was constructed (by the caller, as a stub or from
\* attributes) has exactly two implicit child schemas, PUBLIC and
\* INFORMATION_SCHEMA, created right after it with their database link set
\* to it; nothing else is implicit.
C4_ImplicitSchemas ==
    /\ \A d \in Ids : heap[d].kind = "Database" =>
          /\ ImplicitChildren(d) = {d + 1, d + 2}
          /\ heap[d + 1].name = PUBLIC
          /\ heap[d + 2].name = INFORMATION_SCHEMA
    /\ \A i \in Ids : heap[i].implicit =>
          /\ heap[i].kind = "Schema"
          /\ heap[i].link # NoId
          /\ heap[heap[i].link].kind = "Database"
          /\ i \in ImplicitChildren(heap[i].link)

\* A Database the caller constructed and a stub Database, each with its own
\* two implicit schemas.
C4_Witness ==
    /\ \E d \in roots : heap[d].kind = "Database" /\ Cardinality(ImplicitChildren(d)) = 2
    /\ \E d \in Ids : /\ heap[d].kind = "Database" /\ heap[d].stub
                      /\ Cardinality(ImplicitChildren(d)) = 2

\* C7: every reference list holds each entity at most once, never its owner
\* and never a stub; and after requires(r) on an entity, r is in that
\* entity's reference list.
C7_ReferenceSet ==
    /\ \A e \in Ids :
          /\ Cardinality(Range(heap[e].refs)) = Len(heap[e].refs)
          /\ e \notin Range(heap[e].refs)
          /\ \A r \in Range(heap[e].refs) : ~heap[r].stub
    /\ lastOp.op = "requires" => lastOp.arg \in Range(heap[lastOp.target].refs)

\* C8: a scope link that was given an entity of another kind than the one it
\* expects is not assigned (the call fails); and every scope link holds
\* nothing or an entity of the expected kind.
C8_ScopeMismatch ==
    /\ \A e \in Ids :
          heap[e].link # NoId => heap[heap[e].link].kind = LinkClass(heap[e].kind)
    /\ (lastOp.op \in {"construct", "assign", "add"} /\ lastOp.argtag = "ent"
          /\ lastOp.err = "none")
       => heap[lastOp.arg].kind = LinkClass(heap[lastOp.target].kind)

\* C9: no step changes the name or the kind of an entity that exists.
C9_NameImmutable ==
    [][\A e \in 1..Len(heap) :
          /\ heap'[e].name = heap[e].name
          /\ heap'[e].kind = heap[e].kind]_vars

----------------------------------------------------------------------------
(* Properties of the SQL statements.                                       *)

\* C5: the update of one (attribute, value) pair gives ALTER DATABASE, the
\* optional IF EXISTS and the name, followed by UNSET <ATTRIBUTE> when the
\* value is None (also for the attribute name), else by RENAME TO <value>
\* when the attribute is name, else by SET <ATTRIBUTE> = <value> with a
\* string in single quotes and any other value as it is.
C5_UpdateStatement ==
    call.op = "lifecycle_update" =>
        LET head == <<Kw("ALTER"), Kw("DATABASE")>>
                    \o If(call.if_exists, <<Kw("IF"), Kw("EXISTS")>>)
                    \o <<Text(call.fqn)>>
            ATTR == Text(Upper(call.attr))
        IN  /\ call.err = "none"
            /\ stmt = head \o
                 (IF call.value = NoneValue
                  THEN <<Kw("UNSET"), ATTR>>
                  ELSE IF CaseVariant(call.attr, NAME)
                  THEN <<Kw("RENAME"), Kw("TO"), call.value>>
                  ELSE IF call.value.tag = "text"
                  THEN <<Kw("SET"), ATTR, Kw("="),
                         Text(<<"'">> \o call.value.text \o <<"'">>)>>
                  ELSE <<Kw("SET"), ATTR, Kw("="), call.value>>)

\* The update of name to None: ALTER DATABASE A UNSET NAME.
C5_Witness ==
    /\ call.op = "lifecycle_update"
    /\ call.attr = <<"n","a","m","e">>
    /\ call.value = NoneValue
    /\ stmt = <<Kw("ALTER"), Kw("DATABASE"), Text(<<"A">>), Kw("UNSET"), Text(NAME)>>

\* C6: a CREATE statement begins with CREATE, the optional OR REPLACE,
\* TRANSIENT for a transient entity, the kind keyword, the optional
\* IF NOT EXISTS and the name, in that order, for every kind and every
\* setting of or_replace, if_not_exists and transient.
C6_CreateClauseOrder ==
    (call.op = "create_sql" /\ call.err = "none") =>
        LET pre == <<Kw("CREATE")>>
                   \o If(call.or_replace, <<Kw("OR"), Kw("REPLACE")>>)
                   \o If(call.data.transient, <<Kw("TRANSIENT")>>)
                   \o <<Kw(resource_type(heap[call.target].kind))>>
                   \o If(call.if_not_exists, <<Kw("IF"), Kw("NOT"), Kw("EXISTS")>>)
                   \o <<Text(call.fqn)>>
        IN  /\ Len(stmt) >= Len(pre)
            /\ SubSeq(stmt, 1, Len(pre)) = pre

\* C10: dropping an account with a grace period g (3 when none is passed)
\* gives DROP ACCOUNT, the optional IF EXISTS, the account's name, then
\* GRACE_PERIOD_IN_DAYS = g.
C10_AccountDrop ==
    (call.op = "drop_sql" /\ heap[call.target].kind = "Account") =>
        /\ call.err = "none"
        /\ call.fqn = heap[call.target].name
        /\ stmt = <<Kw("DROP"), Kw("ACCOUNT")>>
                  \o If(call.if_exists, <<Kw("IF"), Kw("EXISTS")>>)
                  \o <<Text(heap[call.target].name)>>
                  \o <<Kw("GRACE_PERIOD_IN_DAYS"), Kw("="),
                       Num(IF call.grace = None THEN DefaultGrace ELSE call.grace[1])>>

\* DROP ACCOUNT A GRACE_PERIOD_IN_DAYS = 7
C10_Witness ==
    /\ call.op = "drop_sql"
    /\ call.grace = Some(7)
    /\ ~call.if_exists
    /\ stmt = <<Kw("DROP"), Kw("ACCOUNT"), Text(<<"A">>),
                Kw("GRACE_PERIOD_IN_DAYS"), Kw("="), Num(7)>>

====
